---- MODULE Spec2Model ----
(***************************************************************************)
(* A model of the movie ETL pipeline: the OMDb enrichment client           *)
(* (src/src/api_client.py) with its in-memory cache, its cache file and    *)
(* its retry loop, and the batched loader (src/src/load.py) over the       *)
(* transaction context manager of src/src/database.py.                     *)
(*                                                                         *)
(* Time is counted in half seconds, so that the backoff base 0.5 s is 1    *)
(* and the ceiling 5 s is 10.                                              *)
(***************************************************************************)
EXTENDS Integers, Sequences, FiniteSets, TLC

----------------------------------------------------------------------------
(* Bounds of the model *)

\* max_retries of a client of the retry specifications ranges over 0..MaxRetries
MaxRetries == 6
\* max_retries of a client of the bulk specification ranges over 0..BulkRetries
BulkRetries == 2
\* longest id collection handed to fetch_bulk; the cap ranges over 0..MaxIds
MaxIds == 3
\* batch_size of a load ranges over 1..MaxBatch
MaxBatch == 2

(* Program constants *)

\* min(5, ...) of _backoff, in half seconds
BACKOFF_CEILING == 10
\* 0.5 * ... of _backoff, in half seconds
BACKOFF_BASE == 1

\* the external ids of the model; "" is the empty id fetch_bulk skips
Ids == {"tt1", "tt2"}
EmptyId == ""

----------------------------------------------------------------------------
(* Values *)

\* Python's None as a return value of fetch_movie
None == [Response |-> "None", Body |-> "none"]
\* the service's success payload for an id (a non-empty JSON object)
FoundPayload(id) == [Response |-> "True", Body |-> id]
\* the service's structured negative for an id
ServiceNegative(id) == [Response |-> "False", Body |-> "Movie not found!"]
\* {'Response': 'False', 'Error': reason}: the marker fetch_movie caches
NegativeMarker(payload) == [Response |-> "False", Body |-> payload.Body]

\* the empty dict
EmptyCache == [i \in {} |-> None]

\* log events of one fetch_movie call
Ev(e, d) == [e |-> e, d |-> d]

VARIABLES
    max_retries,  \* self.max_retries
    cache,        \* self._cache: a function from the cached ids to payloads
    file,         \* the text of the cache file, a sequence of tokens; <<"absent">> when it does not exist
    fm_pc,        \* position of the running fetch_movie call, or "idle" / "down"
    fm_id,        \* imdb_id of the running call
    attempt,      \* the loop variable of fetch_movie
    payload,      \* response.json() of the last request
    fm_ret,       \* the value the call returns
    log,          \* what the running call has done so far: requests, delays, cache writes
    cache0,       \* the cache when the running call started
    file0,        \* the cache file when the running call started
    hist,         \* per id: how the last completed call for it ended
    reloaded,     \* the client was constructed from an existing cache file
    crashed,      \* the client was constructed after an interruption
    b_pc,         \* position of the running fetch_bulk call, or "idle"
    b_ids,        \* imdb_ids
    b_idx,        \* position of the for loop in imdb_ids
    b_limit,      \* limit, as [some |-> FALSE] for None
    counter,      \* counter
    result,       \* result
    b_calls,      \* the ids fetch_bulk has called fetch_movie on, in order
    t_movies,     \* transformed['movies']: rows of movieId and genresList
    t_ratings,    \* transformed['ratings']
    t_details,    \* the movie ids of transformed['movie_details']
    d_version,    \* the payload the details of this run carry
    batch_size,   \* BATCH_SIZE
    db,           \* the tables as the connection sees them
    committed,    \* the tables as last committed
    l_pc,         \* position of the run in the load stage
    l_op,         \* the insert operation under way
    l_chunks,     \* the chunks of its rows
    l_k,          \* the chunk under way
    l_j,          \* the next row of that chunk
    l_start,      \* the committed tables when the operation started
    l_raised,     \* an exception left the operation and ended the run
    first,        \* the tables as the first completed load of the store left them
    f_pc,         \* position of the transformer function under way, or "idle"
    g_in,         \* genres: the argument of _parse_genres
    g_out,        \* the list _parse_genres returned
    g_joined,     \* '|'.join of that list
    g_again,      \* the list _parse_genres returned for the joined string
    r_csv,        \* the rows of the ratings file, as text
    r_frame,      \* ratings: the DataFrame _validate_ratings_dataframe works on
    i_in,         \* imdb_id: the argument of _format_imdb_id
    i_str,        \* imdb_str
    i_ret,        \* the value _format_imdb_id returns
    m_pc,         \* position of main, or "idle"; "aborted" when an exception ended it before the load
    m_err,        \* the exception that ended main before the load
    m_api,        \* not args.skip_api and OMDB_API_KEY
    x_movies,     \* the movies file, if it exists
    x_links,      \* the links file, if it exists
    x_ratings,    \* the ratings file, if it exists
    raw_movies,   \* raw['movies']: movies joined with links
    raw_ratings,  \* raw['ratings']
    a_ids,        \* imdb_ids
    a_idx,        \* position of the for loop of _fetch_api_payloads in imdb_ids
    a_limit,      \* limit, as [some |-> FALSE] for None
    a_payloads,   \* payloads, then api_payloads
    a_calls       \* the ids _fetch_api_payloads has called fetch_movie on, in order

clientVars == <<max_retries, cache, file, fm_pc, fm_id, attempt, payload, fm_ret,
                log, cache0, file0, hist, reloaded, crashed>>
bulkVars == <<b_pc, b_ids, b_idx, b_limit, counter, result, b_calls>>
loaderVars == <<t_movies, t_ratings, t_details, d_version, batch_size, db, committed,
                l_pc, l_op, l_chunks, l_k, l_j, l_start, l_raised, first>>
genreVars == <<g_in, g_out, g_joined, g_again>>
ratingVars == <<r_csv, r_frame>>
imdbVars == <<i_in, i_str, i_ret>>
fnVars == <<f_pc, genreVars, ratingVars, imdbVars>>
runVars == <<m_pc, m_err, m_api, x_movies, x_links, x_ratings, raw_movies, raw_ratings,
             a_ids, a_idx, a_limit, a_payloads, a_calls>>
sourceVars == <<m_api, x_movies, x_links, x_ratings, a_limit>>
stageVars == <<fnVars, runVars>>
vars == <<clientVars, bulkVars, loaderVars, stageVars>>

----------------------------------------------------------------------------
(* The cache file: json.dumps, Path.write_text, Path.read_text, json.loads *)

\* the order in which json.dumps writes the keys of the model
IdOrder == <<"tt1", "tt2">>

Open == [k |-> "{", v |-> None]
Close == [k |-> "}", v |-> None]
\* the content of a cache file that does not exist
Absent == <<[k |-> "absent", v |-> None]>>

RECURSIVE EntryTokens(_, _)
\* the key/value pairs of a dict as tokens, keys n.. of IdOrder
EntryTokens(c, n) ==
    IF n > Len(IdOrder) THEN <<>>
    ELSE (IF IdOrder[n] \in DOMAIN c
          THEN <<[k |-> IdOrder[n], v |-> c[IdOrder[n]]]>>
          ELSE <<>>) \o EntryTokens(c, n + 1)

\* json.dumps(self._cache): the text is "{", the entries, "}"
Dumps(c) == <<Open>> \o EntryTokens(c, 1) \o <<Close>>

\* a text json.loads accepts: one object, opened and closed
IsJson(text) ==
    /\ Len(text) >= 2
    /\ text[1] = Open
    /\ text[Len(text)] = Close
    /\ \A n \in 2..(Len(text) - 1) : text[n].k \in Ids

\* json.loads(text) of an accepted text
Loads(text) ==
    LET keys == {text[n].k : n \in 2..(Len(text) - 1)}
    IN [i \in keys |-> text[CHOOSE n \in 2..(Len(text) - 1) : text[n].k = i].v]

\* _load_cache: the file's dict, or {} when the file is missing or corrupt
LoadCache(text) ==
    IF text = Absent THEN EmptyCache
    ELSE IF IsJson(text) THEN Loads(text)
    ELSE EmptyCache

\* what an interrupted write_text can leave of a text: the file was truncated
\* when it was opened, and any strict prefix of the text may have reached it
TornWrites(text) == {SubSeq(text, 1, n) : n \in 0..(Len(text) - 1)}

----------------------------------------------------------------------------
(* fetch_movie *)

\* a cache test that takes a cached negative marker for a miss
CacheHitFoundOnly(c, id) == id \in DOMAIN c /\ c[id].Response = "True"

\* imdb_id in self._cache
CacheHit(c, id) == id \in DOMAIN c

\* a loop that stops one attempt early
InRangeShort(a, m) == a < m

\* for attempt in range(1, self.max_retries + 1): the loop body runs
InRange(a, m) == a <= m

RECURSIVE Pow2(_)
Pow2(n) == IF n <= 0 THEN 1 ELSE 2 * Pow2(n - 1)

\* a backoff without the ceiling
BackoffNoCeiling(a) == BACKOFF_BASE * Pow2(a - 1)

\* _backoff: delay = min(5, 0.5 * 2 ** (attempt - 1)), in half seconds
BackoffDelay(a) ==
    IF BACKOFF_BASE * Pow2(a - 1) < BACKOFF_CEILING
    THEN BACKOFF_BASE * Pow2(a - 1)
    ELSE BACKOFF_CEILING

\* where fetch_movie goes after a request: the except branch, the
\* Response == 'False' branch, or the success path
AfterResponse(r) ==
    CASE r = "fail" -> "backoff"
      [] r = "notfound" -> "nf_store"
      [] r = "found" -> "ok_store"

\* a negative branch that returns without persisting the cache
PcAfterNoPersist(pc) ==
    CASE pc = "nf_store" -> "return"
      [] pc = "nf_open" -> "nf_write"
      [] pc = "nf_write" -> "return"
      [] pc = "ok_store" -> "ok_open"
      [] pc = "ok_open" -> "ok_write"
      [] pc = "ok_write" -> "ok_sleep"
      [] pc = "ok_sleep" -> "return"

\* a success branch that sleeps before it persists the cache
PcAfterSleepFirst(pc) ==
    CASE pc = "nf_store" -> "nf_open"
      [] pc = "nf_open" -> "nf_write"
      [] pc = "nf_write" -> "return"
      [] pc = "ok_store" -> "ok_sleep"
      [] pc = "ok_sleep" -> "ok_open"
      [] pc = "ok_open" -> "ok_write"
      [] pc = "ok_write" -> "return"

\* the statement sequences of the two branches that end the call
PcAfter(pc) ==
    CASE pc = "nf_store" -> "nf_open"
      [] pc = "nf_open" -> "nf_write"
      [] pc = "nf_write" -> "return"
      [] pc = "ok_store" -> "ok_open"
      [] pc = "ok_open" -> "ok_write"
      [] pc = "ok_write" -> "ok_sleep"
      [] pc = "ok_sleep" -> "return"

\* what the service can answer to one request
Responses == {"fail", "found", "notfound"}

\* response.json() of an answered request
ResponseJson(r, id) == IF r = "found" THEN FoundPayload(id) ELSE ServiceNegative(id)

\* the history of an id after a call for it completed: "resolved" once a call
\* completed with a found payload or a structured not-found (from the network
\* or from the cache), "exhausted" while every completed call ran out of attempts
Ending(before, ret, lg) ==
    IF \/ before = "resolved"
       \/ ret.Response \in {"True", "False"}
       \/ \E n \in 1..Len(lg) : lg[n].e = "req_notfound"
    THEN "resolved"
    ELSE "exhausted"

\* a caller invokes fetch_movie(id)
Enter(id) ==
    /\ fm_pc' = "check"
    /\ fm_id' = id
    /\ attempt' = 0
    /\ payload' = None
    /\ fm_ret' = None
    /\ log' = <<>>
    /\ cache0' = cache
    /\ file0' = file
    /\ UNCHANGED <<max_retries, cache, file, hist, reloaded, crashed>>

\* the call returns to its caller
Leave ==
    /\ fm_pc' = "idle"
    /\ hist' = [hist EXCEPT ![fm_id] = Ending(hist[fm_id], fm_ret, log)]
    /\ attempt' = 0
    /\ payload' = None
    /\ log' = <<>>
    /\ cache0' = EmptyCache
    /\ file0' = Absent
    /\ UNCHANGED <<max_retries, cache, file, fm_id, fm_ret, reloaded, crashed>>

\* a direct call of fetch_movie
Call ==
    /\ fm_pc = "idle"
    /\ b_pc = "idle"
    /\ \E id \in Ids : Enter(id)
    /\ UNCHANGED <<bulkVars, loaderVars, stageVars>>

\* if imdb_id in self._cache: return self._cache[imdb_id]
FmCheck ==
    /\ fm_pc = "check"
    /\ IF CacheHit(cache, fm_id)
       THEN /\ fm_ret' = cache[fm_id]
            /\ fm_pc' = "return"
            /\ UNCHANGED attempt
       ELSE /\ attempt' = 1
            /\ fm_pc' = "loop"
            /\ UNCHANGED fm_ret
    /\ UNCHANGED <<max_retries, cache, file, fm_id, payload, log, cache0, file0,
                   hist, reloaded, crashed, bulkVars, loaderVars, stageVars>>

\* the head of the for loop; after it, logger.error and return None
FmLoop ==
    /\ fm_pc = "loop"
    /\ IF InRange(attempt, max_retries)
       THEN fm_pc' = "request"
       ELSE fm_pc' = "return"
    /\ UNCHANGED <<max_retries, cache, file, fm_id, attempt, payload, fm_ret, log,
                   cache0, file0, hist, reloaded, crashed, bulkVars, loaderVars, stageVars>>

\* session.get, raise_for_status, response.json: one network request
FmRequest ==
    /\ fm_pc = "request"
    /\ \E r \in Responses :
        /\ log' = Append(log, Ev("req_" \o r, 0))
        /\ payload' = IF r = "fail" THEN payload ELSE ResponseJson(r, fm_id)
        /\ fm_pc' = AfterResponse(r)
    /\ UNCHANGED <<max_retries, cache, file, fm_id, attempt, fm_ret, cache0, file0,
                   hist, reloaded, crashed, bulkVars, loaderVars, stageVars>>

\* except RequestException: self._backoff(attempt); continue
FmBackoff ==
    /\ fm_pc = "backoff"
    /\ log' = Append(log, Ev("backoff", BackoffDelay(attempt)))
    /\ attempt' = attempt + 1
    /\ fm_pc' = "loop"
    /\ UNCHANGED <<max_retries, cache, file, fm_id, payload, fm_ret, cache0, file0,
                   hist, reloaded, crashed, bulkVars, loaderVars, stageVars>>

\* self._cache[imdb_id] = ... of either branch
FmStore ==
    /\ fm_pc \in {"nf_store", "ok_store"}
    /\ LET entry == IF fm_pc = "nf_store" THEN NegativeMarker(payload) ELSE payload
       IN cache' = [i \in DOMAIN cache \cup {fm_id} |->
                        IF i = fm_id THEN entry ELSE cache[i]]
    /\ log' = Append(log, Ev("store", 0))
    /\ fm_pc' = PcAfter(fm_pc)
    /\ UNCHANGED <<max_retries, file, fm_id, attempt, payload, fm_ret, cache0, file0,
                   hist, reloaded, crashed, bulkVars, loaderVars, stageVars>>

\* _persist_cache, first half: write_text opens the file, which truncates it
FmPersistOpen ==
    /\ fm_pc \in {"nf_open", "ok_open"}
    /\ file' = <<>>
    /\ fm_pc' = PcAfter(fm_pc)
    /\ UNCHANGED <<max_retries, cache, fm_id, attempt, payload, fm_ret, log, cache0,
                   file0, hist, reloaded, crashed, bulkVars, loaderVars, stageVars>>

\* _persist_cache, second half: the whole text is written
FmPersistWrite ==
    /\ fm_pc \in {"nf_write", "ok_write"}
    /\ file' = Dumps(cache)
    /\ log' = Append(log, Ev("persist", 0))
    /\ fm_pc' = PcAfter(fm_pc)
    /\ UNCHANGED <<max_retries, cache, fm_id, attempt, payload, fm_ret, cache0,
                   file0, hist, reloaded, crashed, bulkVars, loaderVars, stageVars>>

\* time.sleep(self.rate_limit_delay); return payload
FmSleep ==
    /\ fm_pc = "ok_sleep"
    /\ log' = Append(log, Ev("sleep", 0))
    /\ fm_ret' = payload
    /\ fm_pc' = PcAfter(fm_pc)
    /\ UNCHANGED <<max_retries, cache, file, fm_id, attempt, payload, cache0, file0,
                   hist, reloaded, crashed, bulkVars, loaderVars, stageVars>>

\* a direct call returns
FmReturn ==
    /\ fm_pc = "return"
    /\ b_pc = "idle"
    /\ Leave
    /\ UNCHANGED <<bulkVars, loaderVars, stageVars>>

\* the steps of fetch_movie
FetchMovie ==
    \/ FmCheck
    \/ FmLoop
    \/ FmRequest
    \/ FmBackoff
    \/ FmStore
    \/ FmPersistOpen
    \/ FmPersistWrite
    \/ FmSleep

\* OMDbClient(...) of a later run: the cache is read from the file
NewClient ==
    /\ fm_pc = "idle"
    /\ b_pc = "idle"
    /\ cache' = LoadCache(file)
    /\ reloaded' = (file # Absent)
    /\ crashed' = FALSE
    /\ UNCHANGED <<max_retries, file, fm_pc, fm_id, attempt, payload, fm_ret, log,
                   cache0, file0, hist, bulkVars, loaderVars, stageVars>>

\* the run is interrupted from outside: the process and its memory are gone;
\* a write_text under way leaves the file torn
Interrupt ==
    /\ fm_pc \notin {"idle", "down"}
    /\ b_pc = "idle"
    /\ fm_pc' = "down"
    /\ cache' = EmptyCache
    /\ IF fm_pc \in {"nf_write", "ok_write"}
       THEN file' \in TornWrites(Dumps(cache))
       ELSE file' = file
    /\ attempt' = 0
    /\ payload' = None
    /\ fm_ret' = None
    /\ log' = <<>>
    /\ cache0' = EmptyCache
    /\ file0' = Absent
    /\ UNCHANGED <<max_retries, fm_id, hist, reloaded, crashed, bulkVars, loaderVars, stageVars>>

\* OMDbClient(...) of the run that follows an interruption
Restart ==
    /\ fm_pc = "down"
    /\ fm_pc' = "idle"
    /\ cache' = LoadCache(file)
    /\ reloaded' = (file # Absent)
    /\ crashed' = TRUE
    /\ UNCHANGED <<max_retries, file, fm_id, attempt, payload, fm_ret, log, cache0,
                   file0, hist, bulkVars, loaderVars, stageVars>>

----------------------------------------------------------------------------
(* fetch_bulk *)

\* if payload: of fetch_bulk; a payload is None or a non-empty dict
Truthy(p) == p # None

\* a cap test that takes the cap 0 for no cap
LimitReachedTruthy(lim, c) == lim.some /\ lim.n # 0 /\ c >= lim.n

\* limit is not None and counter >= limit
LimitReached(lim, c) == lim.some /\ c >= lim.n

\* not imdb_id
IsEmptyId(id) == id = EmptyId

\* the id collections of the model
RECURSIVE SeqsUpTo(_, _)
SeqsUpTo(S, n) ==
    IF n = 0 THEN {<<>>}
    ELSE LET shorter == SeqsUpTo(S, n - 1)
         IN shorter \cup {Append(q, x) : q \in shorter, x \in S}

NoLimit == [some |-> FALSE, n |-> 0]
Limit(n) == [some |-> TRUE, n |-> n]

\* fetch_bulk(imdb_ids, limit) is called: result = {}, counter = 0
BulkStart ==
    /\ fm_pc = "idle"
    /\ b_pc = "idle"
    /\ \E ids \in SeqsUpTo(Ids \cup {EmptyId}, MaxIds),
          lim \in {NoLimit} \cup {Limit(n) : n \in 0..MaxIds} :
        /\ b_ids' = ids
        /\ b_limit' = lim
    /\ b_idx' = 1
    /\ counter' = 0
    /\ result' = EmptyCache
    /\ b_calls' = <<>>
    /\ b_pc' = "loop"
    /\ UNCHANGED <<clientVars, loaderVars, stageVars>>

\* one pass of the for loop up to the call of fetch_movie: the end of the
\* collection, the break on the cap, the continue on an empty id, or the call
BulkLoop ==
    /\ b_pc = "loop"
    /\ IF b_idx > Len(b_ids) \/ LimitReached(b_limit, counter)
       THEN /\ b_pc' = "done"
            /\ UNCHANGED <<b_idx, b_calls, clientVars>>
       ELSE IF IsEmptyId(b_ids[b_idx])
       THEN /\ b_idx' = b_idx + 1
            /\ UNCHANGED <<b_pc, b_calls, clientVars>>
       ELSE /\ Enter(b_ids[b_idx])
            /\ b_calls' = Append(b_calls, b_ids[b_idx])
            /\ b_pc' = "call"
            /\ UNCHANGED b_idx
    /\ UNCHANGED <<b_ids, b_limit, counter, result, loaderVars, stageVars>>

\* payload = self.fetch_movie(imdb_id) returns; if payload: result[imdb_id] = payload;
\* counter += 1
BulkAfterCall ==
    /\ b_pc = "call"
    /\ fm_pc = "return"
    /\ Leave
    /\ result' = IF Truthy(fm_ret)
                 THEN [i \in DOMAIN result \cup {fm_id} |->
                          IF i = fm_id THEN fm_ret ELSE result[i]]
                 ELSE result
    /\ counter' = counter + 1
    /\ b_idx' = b_idx + 1
    /\ b_pc' = "loop"
    /\ UNCHANGED <<b_ids, b_limit, b_calls, loaderVars, stageVars>>

\* return result
BulkReturn ==
    /\ b_pc = "done"
    /\ b_pc' = "idle"
    /\ b_ids' = <<>>
    /\ b_idx' = 0
    /\ b_limit' = NoLimit
    /\ counter' = 0
    /\ result' = EmptyCache
    /\ b_calls' = <<>>
    /\ UNCHANGED <<clientVars, loaderVars, stageVars>>

----------------------------------------------------------------------------
(* The store: five tables behind one connection *)

\* the movie ids, genre tags, rating rows and detail payloads of the model
MovieIds == {1, 2}
GenreOrder == <<<<"Comedy">>, <<"Drama">>>>
GenreLists == {<<>>, <<GenreOrder[1]>>, <<GenreOrder[2]>>, GenreOrder}
RatingRows == {[userId |-> 1, movieId |-> m, rating |-> 9, timestamp |-> 100] : m \in MovieIds}
Versions == {"v1", "v2"}

\* the empty tables the schema creates
EmptyStore ==
    [movies |-> {}, genres |-> [g \in {} |-> 0], movie_genres |-> {},
     ratings |-> {}, movie_details |-> {}]

\* the insert operations with movie_genres ahead of genres
OpsGenresLate == <<"movies", "movie_genres", "genres", "ratings", "movie_details">>

\* the insert operations, in the order main runs them
Ops == <<"movies", "genres", "movie_genres", "ratings", "movie_details">>

SetMax(S) == IF S = {} THEN 0 ELSE CHOOSE x \in S : \A y \in S : y <= x

\* the ids of the genres table
GenreIds(st) == {st.genres[g] : g \in DOMAIN st.genres}

\* a connection that does not enforce the foreign keys
foreign_keys_off == FALSE

\* get_connection: PRAGMA foreign_keys = ON
foreign_keys == TRUE

\* the declared foreign keys: MovieGenre to Movie and Genre, Rating to Movie,
\* MovieDetail to Movie; a row that breaks one fails its INSERT
FkOk(op, st, row) ==
    CASE op = "movie_genres" -> row.movieId \in st.movies /\ row.genreId \in GenreIds(st)
      [] op = "ratings" -> row.movieId \in st.movies
      [] op = "movie_details" -> row.movieId \in st.movies
      [] OTHER -> TRUE

\* the uniqueness key of a rating: (userId, movieId, timestamp)
RatingKey(r) == <<r.userId, r.movieId, r.timestamp>>

\* INSERT OR IGNORE INTO movies
InsertMovie(st, row) ==
    IF row.movieId \in st.movies THEN st
    ELSE [st EXCEPT !.movies = @ \cup {row.movieId}]

\* INSERT OR IGNORE INTO genres (genreName): the store numbers a new genre
InsertGenre(st, row) ==
    IF row.genreName \in DOMAIN st.genres THEN st
    ELSE [st EXCEPT !.genres =
            [g \in DOMAIN st.genres \cup {row.genreName} |->
                IF g = row.genreName THEN SetMax(GenreIds(st)) + 1 ELSE st.genres[g]]]

\* INSERT OR IGNORE INTO movie_genres
InsertMovieGenre(st, row) == [st EXCEPT !.movie_genres = @ \cup {row}]

\* INSERT OR IGNORE INTO ratings
InsertRating(st, row) ==
    IF \E r \in st.ratings : RatingKey(r) = RatingKey(row) THEN st
    ELSE [st EXCEPT !.ratings = @ \cup {row}]

\* an insert into movie_details that leaves the row of the movie in place
InsertDetailKeepsOld(st, row) == [st EXCEPT !.movie_details = @ \cup {row}]

\* INSERT OR REPLACE INTO movie_details: the row of the movie, if there is
\* one, is deleted and the new row takes its place
ReplaceDetail(st, row) ==
    [st EXCEPT !.movie_details = {r \in @ : r.movieId # row.movieId} \cup {row}]

\* the statement of an operation, run for one row
Execute(op, st, row) ==
    CASE op = "movies" -> InsertMovie(st, row)
      [] op = "genres" -> InsertGenre(st, row)
      [] op = "movie_genres" -> InsertMovieGenre(st, row)
      [] op = "ratings" -> InsertRating(st, row)
      [] op = "movie_details" -> ReplaceDetail(st, row)

\* the row, with these values, is in the tables
Present(op, st, row) ==
    CASE op = "movies" -> row.movieId \in st.movies
      [] op = "genres" -> row.genreName \in DOMAIN st.genres
      [] op = "movie_genres" -> row \in st.movie_genres
      [] op = "ratings" -> row \in st.ratings
      [] op = "movie_details" -> row \in st.movie_details

----------------------------------------------------------------------------
(* transaction *)

\* a transaction that commits when its body raised
TxExceptCommits(view, durable) == [view |-> view, durable |-> view]

\* except Exception: connection.rollback(); raise
TxExcept(view, durable) == [view |-> durable, durable |-> durable]

\* yield cursor; connection.commit()
TxCommit(view, durable) == [view |-> view, durable |-> view]

----------------------------------------------------------------------------
(* The record sets of the transformer that the loader reads *)

RECURSIVE Flatten(_)
Flatten(qq) == IF qq = <<>> THEN <<>> ELSE Head(qq) \o Flatten(Tail(qq))

Range(q) == {q[n] : n \in 1..Len(q)}

\* build_genres_lookup: the sorted set of the tags of all movies
BuildGenresLookup(movies) ==
    LET tags == UNION {Range(movies[n].genresList) : n \in 1..Len(movies)}
    IN SelectSeq(GenreOrder, LAMBDA g : g \in tags)

\* map_movie_genres: one record per movie and tag, in order
MapMovieGenres(movies) ==
    LET PairsOf(m) ==
            [n \in 1..Len(m.genresList) |->
                [movieId |-> m.movieId, genreName |-> m.genresList[n]]]
    IN Flatten([n \in 1..Len(movies) |-> PairsOf(movies[n])])

----------------------------------------------------------------------------
(* The loader *)

RECURSIVE Chunked(_, _)
\* _chunked: lists of size rows, the last one shorter
Chunked(rows, size) ==
    IF rows = <<>> THEN <<>>
    ELSE IF Len(rows) <= size THEN <<rows>>
    ELSE <<SubSeq(rows, 1, size)>> \o Chunked(SubSeq(rows, size + 1, Len(rows)), size)

\* _genre_map: genreName to genreId, read from the genres table
GenreMap(st) == st.genres

\* the rows insert_movie_genres builds: a pair whose genre has no id is dropped
MovieGenreRows(st, pairs) ==
    LET known == SelectSeq(pairs, LAMBDA p : p.genreName \in DOMAIN GenreMap(st))
    IN [n \in 1..Len(known) |->
            [movieId |-> known[n].movieId, genreId |-> GenreMap(st)[known[n].genreName]]]

\* the rows list each insert operation builds from its record set
RowsFor(op, st) ==
    CASE op = "movies" ->
            [n \in 1..Len(t_movies) |-> [movieId |-> t_movies[n].movieId]]
      [] op = "genres" ->
            LET genres == BuildGenresLookup(t_movies)
            IN [n \in 1..Len(genres) |-> [genreName |-> genres[n]]]
      [] op = "movie_genres" -> MovieGenreRows(st, MapMovieGenres(t_movies))
      [] op = "ratings" -> t_ratings
      [] op = "movie_details" ->
            [n \in 1..Len(t_details) |-> [movieId |-> t_details[n], data |-> d_version]]

\* the position of an operation in main
OpIndex(op) == CHOOSE n \in 1..Len(Ops) : Ops[n] = op

dataVars == <<t_movies, t_ratings, t_details, batch_size>>

\* main reaches the load stage of a run, on a connection of its own; the
\* payloads of this run's details are whatever the service sent
RunStart ==
    /\ l_pc \in {"idle", "done", "failed"}
    /\ l_pc' = "begin"
    /\ l_op' = "movies"
    /\ d_version' \in Versions
    /\ db' = committed
    /\ l_chunks' = <<>>
    /\ l_k' = 1
    /\ l_j' = 1
    /\ l_start' = committed
    /\ l_raised' = FALSE
    /\ UNCHANGED <<clientVars, bulkVars, stageVars, dataVars, first, committed>>

\* insert_*: the rows are built and the transaction block is entered
OpBegin ==
    /\ l_pc = "begin"
    /\ l_chunks' = Chunked(RowsFor(l_op, db), batch_size)
    /\ l_k' = 1
    /\ l_j' = 1
    /\ l_start' = committed
    /\ l_pc' = "exec"
    /\ UNCHANGED <<clientVars, bulkVars, stageVars, dataVars, first, d_version, db, committed, l_op, l_raised>>

\* cursor.executemany(query, chunk) writes the next row of the chunk
WriteRow ==
    /\ l_pc = "exec"
    /\ l_k <= Len(l_chunks)
    /\ LET row == l_chunks[l_k][l_j]
       IN /\ foreign_keys => FkOk(l_op, db, row)
          /\ db' = Execute(l_op, db, row)
    /\ IF l_j < Len(l_chunks[l_k])
       THEN l_j' = l_j + 1 /\ l_k' = l_k
       ELSE l_j' = 1 /\ l_k' = l_k + 1
    /\ UNCHANGED <<clientVars, bulkVars, stageVars, dataVars, first, d_version, committed, l_pc, l_op, l_chunks, l_start, l_raised>>

\* the write of the next row raises: a foreign key is violated, or the store
\* fails (sqlite3.Error)
WriteFails ==
    /\ l_pc = "exec"
    /\ l_k <= Len(l_chunks)
    /\ l_pc' = "except"
    /\ UNCHANGED <<clientVars, bulkVars, stageVars, dataVars, first, d_version, db, committed, l_op, l_chunks, l_k, l_j,
                   l_start, l_raised>>

\* _execute_chunks is through: transaction commits and the operation returns;
\* main goes on to the next operation, or to _verify_connection
OpCommit ==
    /\ l_pc = "exec"
    /\ l_k > Len(l_chunks)
    /\ db' = TxCommit(db, committed).view
    /\ committed' = TxCommit(db, committed).durable
    /\ IF OpIndex(l_op) < Len(Ops)
       THEN l_pc' = "begin" /\ l_op' = Ops[OpIndex(l_op) + 1]
       ELSE l_pc' = "verify" /\ l_op' = l_op
    /\ UNCHANGED <<clientVars, bulkVars, stageVars, dataVars, first, d_version, l_chunks, l_k, l_j, l_start, l_raised>>

\* the except branch of transaction: rollback, and the exception goes on
\* through the insert operation and main, which catch nothing
OpRollback ==
    /\ l_pc = "except"
    /\ db' = TxExcept(db, committed).view
    /\ committed' = TxExcept(db, committed).durable
    /\ l_raised' = TRUE
    /\ l_pc' = "failed"
    /\ UNCHANGED <<clientVars, bulkVars, stageVars, dataVars, first, d_version, l_op, l_chunks, l_k, l_j, l_start>>

\* _verify_connection and the summary: the run ends
Verify ==
    /\ l_pc = "verify"
    /\ l_pc' = "done"
    /\ first' = IF first.set THEN first ELSE [set |-> TRUE, store |-> committed]
    /\ UNCHANGED <<clientVars, bulkVars, stageVars, dataVars, d_version, db, committed, l_op, l_chunks, l_k, l_j,
                   l_start, l_raised>>

----------------------------------------------------------------------------
(* Specifications *)

InitCommon ==
    /\ cache = EmptyCache
    /\ file = Absent
    /\ fm_pc = "idle"
    /\ fm_id = "tt1"
    /\ attempt = 0
    /\ payload = None
    /\ fm_ret = None
    /\ log = <<>>
    /\ cache0 = EmptyCache
    /\ file0 = Absent
    /\ hist = [i \in Ids |-> "never"]
    /\ reloaded = FALSE
    /\ crashed = FALSE
    /\ b_pc = "idle"
    /\ b_ids = <<>>
    /\ b_idx = 0
    /\ b_limit = NoLimit
    /\ counter = 0
    /\ result = EmptyCache
    /\ b_calls = <<>>

\* no load is under way, on the empty tables of a fresh store
InitStore ==
    /\ d_version = "v1"
    /\ db = EmptyStore
    /\ committed = EmptyStore
    /\ l_pc = "idle"
    /\ l_op = "movies"
    /\ l_chunks = <<>>
    /\ l_k = 1
    /\ l_j = 1
    /\ l_start = EmptyStore
    /\ l_raised = FALSE
    /\ first = [set |-> FALSE, store |-> EmptyStore]

\* no record sets
InitNoData ==
    /\ t_movies = <<>>
    /\ t_ratings = <<>>
    /\ t_details = <<>>
    /\ batch_size = 1
    /\ InitStore

\* no genres string is being parsed
NoGenres ==
    /\ g_in = [str |-> FALSE, s |-> <<>>]
    /\ g_out = <<>>
    /\ g_joined = [str |-> FALSE, s |-> <<>>]
    /\ g_again = <<>>

\* no ratings table is being validated
NoRatings ==
    /\ r_csv = <<>>
    /\ r_frame = <<>>

\* no id is being formatted
NoImdb ==
    /\ i_in = [k |-> "nan", n |-> 0, s |-> <<>>]
    /\ i_str = <<>>
    /\ i_ret = [none |-> TRUE, s |-> <<>>]

\* a source file that does not exist, and one with its rows
NoFile == [exists |-> FALSE, rows |-> <<>>]
File(rows) == [exists |-> TRUE, rows |-> rows]

\* pd.DataFrame(): no columns, no rows
EmptyFrame == [columns |-> {}, rows |-> <<>>]

\* main is not running
NoRun ==
    /\ m_pc = "idle"
    /\ m_err = ""
    /\ m_api = FALSE
    /\ x_movies = NoFile
    /\ x_links = NoFile
    /\ x_ratings = NoFile
    /\ raw_movies = EmptyFrame
    /\ raw_ratings = EmptyFrame
    /\ a_ids = <<>>
    /\ a_idx = 0
    /\ a_limit = NoLimit
    /\ a_payloads = EmptyCache
    /\ a_calls = <<>>

\* no function of the extract and transform stages is under way, nor main
InitNoFn ==
    /\ f_pc = "idle"
    /\ NoGenres
    /\ NoRatings
    /\ NoImdb
    /\ NoRun

\* a client with any max_retries, of a first run (no cache file yet)
Init ==
    /\ max_retries \in 0..MaxRetries
    /\ InitCommon
    /\ InitNoData
    /\ InitNoFn

\* direct fetch_movie calls, and later runs on the same cache file
Next ==
    \/ Call
    \/ FetchMovie
    \/ FmReturn
    \/ NewClient

Spec == Init /\ [][Next]_vars

\* the same, with runs interrupted at any point
NextCrash ==
    \/ Next
    \/ Interrupt
    \/ Restart

SpecCrash == Init /\ [][NextCrash]_vars

\* a client of a first run, for the bulk calls
InitBulk ==
    /\ max_retries \in 0..BulkRetries
    /\ InitCommon
    /\ InitNoData
    /\ InitNoFn

\* fetch_bulk calls, one after the other, on the same client
NextBulk ==
    \/ BulkStart
    \/ BulkLoop
    \/ FetchMovie
    \/ BulkAfterCall
    \/ BulkReturn

SpecBulk == InitBulk /\ [][NextBulk]_vars

\* the sequences without repetition over a set
RECURSIVE Arrangements(_)
Arrangements(S) ==
    {<<>>} \cup UNION {{<<x>> \o q : q \in Arrangements(S \ {x})} : x \in S}

\* the movie tables of the model: distinct ids, each with a genre list
MovieTables ==
    UNION {{[n \in 1..Len(q) |-> [movieId |-> q[n], genresList |-> gl[n]]] :
                gl \in [1..Len(q) -> GenreLists]} : q \in Arrangements(MovieIds)}

\* the record sets of a run and its batch size, on a fresh store; details
\* exist only for movies of the table
InitLoader ==
    /\ max_retries = 0
    /\ InitCommon
    /\ t_movies \in MovieTables
    /\ t_ratings \in Arrangements(RatingRows)
    /\ t_details \in Arrangements({t_movies[n].movieId : n \in 1..Len(t_movies)})
    /\ batch_size \in 1..MaxBatch
    /\ InitStore
    /\ InitNoFn

\* the load stage of main, run after run on the same store
NextLoader ==
    \/ RunStart
    \/ OpBegin
    \/ WriteRow
    \/ WriteFails
    \/ OpCommit
    \/ OpRollback
    \/ Verify

SpecLoader == InitLoader /\ [][NextLoader]_vars

----------------------------------------------------------------------------
(* _parse_genres *)

\* a genres value is a string or not (NaN); a string is a sequence of
\* pieces: the separator, a blank, and words that hold neither
Pipe == "|"
Blank == " "
Sentinel == "(no genres listed)"
Words == {"Comedy", "Drama", Sentinel, "(No Genres Listed)"}
Pieces == {Pipe, Blank} \cup Words
MaxPieces == 3

NotAString == [str |-> FALSE, s |-> <<>>]
StringOf(q) == [str |-> TRUE, s |-> q]

\* str.lower
LowerPiece(c) ==
    CASE c = "(No Genres Listed)" -> Sentinel
      [] c = "Drama" -> "drama"
      [] c = "Comedy" -> "comedy"
      [] OTHER -> c

Lower(s) == [n \in 1..Len(s) |-> LowerPiece(s[n])]

RECURSIVE LStrip(_)
LStrip(s) == IF s # <<>> /\ Head(s) = Blank THEN LStrip(Tail(s)) ELSE s

RECURSIVE RStrip(_)
RStrip(s) == IF s # <<>> /\ s[Len(s)] = Blank THEN RStrip(SubSeq(s, 1, Len(s) - 1)) ELSE s

\* str.strip
Strip(s) == RStrip(LStrip(s))

RECURSIVE Split(_)
\* str.split('|'): the parts between the separators
Split(s) ==
    IF \A n \in 1..Len(s) : s[n] # Pipe THEN <<s>>
    ELSE LET k == CHOOSE n \in 1..Len(s) : s[n] = Pipe /\ \A j \in 1..(n - 1) : s[j] # Pipe
         IN <<SubSeq(s, 1, k - 1)>> \o Split(SubSeq(s, k + 1, Len(s)))

\* _parse_genres: the list of the tags of a genres value
ParseGenres(genres) ==
    IF ~ genres.str THEN <<>>
    ELSE IF Lower(Strip(genres.s)) = <<Sentinel>> THEN <<>>
    ELSE LET parts == Split(genres.s)
             kept == SelectSeq(parts, LAMBDA g : Strip(g) # <<>>)
         IN [n \in 1..Len(kept) |-> Strip(kept[n])]

RECURSIVE Join(_)
\* '|'.join(tags)
Join(tags) ==
    IF tags = <<>> THEN <<>>
    ELSE IF Len(tags) = 1 THEN tags[1]
    ELSE tags[1] \o <<Pipe>> \o Join(Tail(tags))

\* the genres values of the model
GenreInputs == {NotAString} \cup {StringOf(q) : q \in SeqsUpTo(Pieces, MaxPieces)}

\* genresList of a row: _parse_genres(genres)
GenresParse ==
    /\ f_pc = "genres"
    /\ g_out' = ParseGenres(g_in)
    /\ f_pc' = "parsed"
    /\ UNCHANGED <<clientVars, bulkVars, loaderVars, runVars, ratingVars, imdbVars, g_in, g_joined, g_again>>

\* the list is written back as a genres string
GenresRejoin ==
    /\ f_pc = "parsed"
    /\ g_joined' = StringOf(Join(g_out))
    /\ f_pc' = "joined"
    /\ UNCHANGED <<clientVars, bulkVars, loaderVars, runVars, ratingVars, imdbVars, g_in, g_out, g_again>>

\* _parse_genres of the string written back
GenresReparse ==
    /\ f_pc = "joined"
    /\ g_again' = ParseGenres(g_joined)
    /\ f_pc' = "reparsed"
    /\ UNCHANGED <<clientVars, bulkVars, loaderVars, runVars, ratingVars, imdbVars, g_in, g_out, g_joined>>

\* any genres value, about to be parsed
InitGenres ==
    /\ max_retries = 0
    /\ InitCommon
    /\ InitNoData
    /\ f_pc = "genres"
    /\ g_in \in GenreInputs
    /\ g_out = <<>>
    /\ g_joined = NotAString
    /\ g_again = <<>>
    /\ NoRatings
    /\ NoImdb
    /\ NoRun

NextGenres ==
    \/ GenresParse
    \/ GenresRejoin
    \/ GenresReparse

SpecGenres == InitGenres /\ [][NextGenres]_vars

----------------------------------------------------------------------------
(* _validate_ratings_dataframe *)

\* the cells of a DataFrame: a number, a string, NaN, a Timestamp
Num(n) == [k |-> "num", n |-> n, t |-> ""]
Str(t) == [k |-> "str", n |-> 0, t |-> t]
NaN == [k |-> "nan", n |-> 0, t |-> ""]
Time(n) == [k |-> "time", n |-> n, t |-> ""]

\* the texts of the rating and timestamp fields of the ratings file; scores
\* count in tenths of a star, timestamps in seconds
RatingTexts == {"4.5", "7.0", "x"}
TimestampTexts == {"100", "100.0", "abc"}
MaxRatings == 3

\* the number a text is read as, NaN when it is none
ParseNumber(t) ==
    CASE t = "4.5" -> Num(45)
      [] t = "7.0" -> Num(70)
      [] t = "100" -> Num(100)
      [] t = "100.0" -> Num(100)
      [] OTHER -> NaN

\* pd.read_csv: a column whose fields are all numbers is a column of
\* numbers; one with a field that is none keeps its fields as strings
ReadColumn(texts) ==
    IF \A n \in 1..Len(texts) : ParseNumber(texts[n]) # NaN
    THEN [n \in 1..Len(texts) |-> ParseNumber(texts[n])]
    ELSE [n \in 1..Len(texts) |-> Str(texts[n])]

\* _read_csv(RATINGS_CSV)
ReadRatings(csv) ==
    LET scores == ReadColumn([n \in 1..Len(csv) |-> csv[n].rating])
        stamps == ReadColumn([n \in 1..Len(csv) |-> csv[n].timestamp])
    IN [n \in 1..Len(csv) |->
            [userId |-> csv[n].userId, movieId |-> csv[n].movieId,
             rating |-> scores[n], timestamp |-> stamps[n]]]

\* subset=['userId', 'movieId', 'timestamp']
DuplicateKey(r) == <<r.userId, r.movieId, r.timestamp>>

\* drop_duplicates: of the rows of one key the first one stays
DropDuplicates(frame) ==
    LET leads(n) == \A j \in 1..(n - 1) : DuplicateKey(frame[j]) # DuplicateKey(frame[n])
        idx == SelectSeq([n \in 1..Len(frame) |-> n], leads)
    IN [n \in 1..Len(idx) |-> frame[idx[n]]]

\* pd.to_numeric(errors='coerce'), cell by cell
ToNumeric(c) ==
    CASE c.k = "num" -> c
      [] c.k = "str" -> ParseNumber(c.t)
      [] OTHER -> NaN

\* the bounds of a score, 0.5 and 5.0, in tenths
RATING_MIN == 5
RATING_MAX == 50

\* (rating >= 0.5) & (rating <= 5.0): NaN passes neither test
ScoreInRange(c) == c.k = "num" /\ c.n >= RATING_MIN /\ c.n <= RATING_MAX

NaT == [k |-> "nat", n |-> 0, t |-> ""]

\* pd.to_datetime(unit='s', origin='unix', errors='coerce'), cell by cell;
\* the timestamps of the model are all within the range of a Timestamp
ToDatetime(c) == IF c.k = "num" THEN Time(c.n) ELSE NaT

\* ratings['rating'] = pd.to_numeric(ratings['rating'], errors='coerce')
ScoreToNumeric(frame) == [n \in 1..Len(frame) |-> [frame[n] EXCEPT !.rating = ToNumeric(@)]]

\* ratings[(ratings['rating'] >= 0.5) & (ratings['rating'] <= 5.0)]
ScoreRange(frame) == SelectSeq(frame, LAMBDA r : ScoreInRange(r.rating))

\* ratings['timestamp'] = pd.to_numeric(ratings['timestamp'], errors='coerce')
TimestampToNumeric(frame) == [n \in 1..Len(frame) |-> [frame[n] EXCEPT !.timestamp = ToNumeric(@)]]

\* ratings.dropna(subset=['rating', 'timestamp'])
DropNa(frame) == SelectSeq(frame, LAMBDA r : r.rating # NaN /\ r.timestamp # NaN)

\* ratings['timestamp'] = pd.to_datetime(ratings['timestamp'], ...)
TimestampToDatetime(frame) == [n \in 1..Len(frame) |-> [frame[n] EXCEPT !.timestamp = ToDatetime(@)]]

\* ratings.dropna(subset=['timestamp'])
DropNaT(frame) == SelectSeq(frame, LAMBDA r : r.timestamp # NaT)

\* _validate_ratings_dataframe, from its first line to its last
ValidateRatings(frame) ==
    DropNaT(TimestampToDatetime(DropNa(TimestampToNumeric(ScoreRange(ScoreToNumeric(
        DropDuplicates(frame)))))))

\* _read_csv(RATINGS_CSV): the file becomes a DataFrame
RatingsRead ==
    /\ f_pc = "csv"
    /\ r_frame' = ReadRatings(r_csv)
    /\ f_pc' = "ratings"
    /\ UNCHANGED <<clientVars, bulkVars, loaderVars, runVars, genreVars, imdbVars, r_csv>>

\* ratings.drop_duplicates(subset=['userId', 'movieId', 'timestamp'])
RatingsDropDuplicates ==
    /\ f_pc = "ratings"
    /\ r_frame' = DropDuplicates(r_frame)
    /\ f_pc' = "deduped"
    /\ UNCHANGED <<clientVars, bulkVars, loaderVars, runVars, genreVars, imdbVars, r_csv>>

\* ratings['rating'] = pd.to_numeric(ratings['rating'], errors='coerce')
RatingsScoreToNumeric ==
    /\ f_pc = "deduped"
    /\ r_frame' = ScoreToNumeric(r_frame)
    /\ f_pc' = "scored"
    /\ UNCHANGED <<clientVars, bulkVars, loaderVars, runVars, genreVars, imdbVars, r_csv>>

\* ratings[(ratings['rating'] >= 0.5) & (ratings['rating'] <= 5.0)]
RatingsScoreRange ==
    /\ f_pc = "scored"
    /\ r_frame' = ScoreRange(r_frame)
    /\ f_pc' = "ranged"
    /\ UNCHANGED <<clientVars, bulkVars, loaderVars, runVars, genreVars, imdbVars, r_csv>>

\* ratings['timestamp'] = pd.to_numeric(ratings['timestamp'], errors='coerce')
RatingsTimestampToNumeric ==
    /\ f_pc = "ranged"
    /\ r_frame' = TimestampToNumeric(r_frame)
    /\ f_pc' = "stamped"
    /\ UNCHANGED <<clientVars, bulkVars, loaderVars, runVars, genreVars, imdbVars, r_csv>>

\* ratings.dropna(subset=['rating', 'timestamp'])
RatingsDropNa ==
    /\ f_pc = "stamped"
    /\ r_frame' = DropNa(r_frame)
    /\ f_pc' = "dropped"
    /\ UNCHANGED <<clientVars, bulkVars, loaderVars, runVars, genreVars, imdbVars, r_csv>>

\* ratings['timestamp'] = pd.to_datetime(ratings['timestamp'], unit='s', ...)
RatingsToDatetime ==
    /\ f_pc = "dropped"
    /\ r_frame' = TimestampToDatetime(r_frame)
    /\ f_pc' = "dated"
    /\ UNCHANGED <<clientVars, bulkVars, loaderVars, runVars, genreVars, imdbVars, r_csv>>

\* ratings.dropna(subset=['timestamp']); return ratings
RatingsDropNaT ==
    /\ f_pc = "dated"
    /\ r_frame' = DropNaT(r_frame)
    /\ f_pc' = "valid"
    /\ UNCHANGED <<clientVars, bulkVars, loaderVars, runVars, genreVars, imdbVars, r_csv>>

\* the ratings files of the model: one user, one movie
RatingFiles ==
    SeqsUpTo([userId : {1}, movieId : {1}, rating : RatingTexts, timestamp : TimestampTexts],
             MaxRatings)

\* any ratings file, about to be read and validated
InitRatings ==
    /\ max_retries = 0
    /\ InitCommon
    /\ InitNoData
    /\ f_pc = "csv"
    /\ NoGenres
    /\ r_csv \in RatingFiles
    /\ r_frame = <<>>
    /\ NoImdb
    /\ NoRun

NextRatings ==
    \/ RatingsRead
    \/ RatingsDropDuplicates
    \/ RatingsScoreToNumeric
    \/ RatingsScoreRange
    \/ RatingsTimestampToNumeric
    \/ RatingsDropNa
    \/ RatingsToDatetime
    \/ RatingsDropNaT

SpecRatings == InitRatings /\ [][NextRatings]_vars

----------------------------------------------------------------------------
(* _format_imdb_id *)

\* the values of the imdbId column: NaN, a float, an int, a string of
\* characters
NanId == [k |-> "nan", n |-> 0, s |-> <<>>]
FloatId(n) == [k |-> "float", n |-> n, s |-> <<>>]
IntId(n) == [k |-> "int", n |-> n, s |-> <<>>]
StrId(q) == [k |-> "str", n |-> 0, s |-> q]

\* what the function returns: None, or a string
NoneId == [none |-> TRUE, s |-> <<>>]
SomeId(q) == [none |-> FALSE, s |-> q]

DigitChars == <<"0", "1", "2", "3", "4", "5", "6", "7", "8", "9">>

RECURSIVE IntToStr(_)
\* str(n) of an int: its decimal digits, after a minus sign when negative
IntToStr(n) ==
    IF n < 0 THEN <<"-">> \o IntToStr(0 - n)
    ELSE IF n < 10 THEN <<DigitChars[n + 1]>>
    ELSE IntToStr(n \div 10) \o <<DigitChars[(n % 10) + 1]>>

\* the width zfill pads to
IMDB_WIDTH == 7

\* str.zfill(width): zeros on the left, after a sign if there is one
Zfill(q, width) ==
    LET zeros == [n \in 1..(width - Len(q)) |-> "0"]
    IN IF Len(q) >= width THEN q
       ELSE IF q # <<>> /\ Head(q) \in {"+", "-"} THEN <<Head(q)>> \o zeros \o Tail(q)
       ELSE zeros \o q

\* pd.isna(imdb_id)
IsNa(v) == v.k = "nan"

\* str(int(imdb_id)) if isinstance(imdb_id, float) else str(imdb_id)
ImdbStr(v) ==
    CASE v.k = "float" -> IntToStr(v.n)
      [] v.k = "int" -> IntToStr(v.n)
      [] OTHER -> v.s

\* if pd.isna(imdb_id): return None
ImdbIsNa ==
    /\ f_pc = "imdb"
    /\ IF IsNa(i_in)
       THEN i_ret' = NoneId /\ f_pc' = "formatted"
       ELSE i_ret' = i_ret /\ f_pc' = "str"
    /\ UNCHANGED <<clientVars, bulkVars, loaderVars, runVars, genreVars, ratingVars, i_in, i_str>>

\* imdb_str = ...
ImdbToStr ==
    /\ f_pc = "str"
    /\ i_str' = ImdbStr(i_in)
    /\ f_pc' = "empty"
    /\ UNCHANGED <<clientVars, bulkVars, loaderVars, runVars, genreVars, ratingVars, i_in, i_ret>>

\* if not imdb_str: return None
ImdbEmpty ==
    /\ f_pc = "empty"
    /\ IF i_str = <<>>
       THEN i_ret' = NoneId /\ f_pc' = "formatted"
       ELSE i_ret' = i_ret /\ f_pc' = "zfill"
    /\ UNCHANGED <<clientVars, bulkVars, loaderVars, runVars, genreVars, ratingVars, i_in, i_str>>

\* imdb_str = imdb_str.zfill(7)
ImdbZfill ==
    /\ f_pc = "zfill"
    /\ i_str' = Zfill(i_str, IMDB_WIDTH)
    /\ f_pc' = "prefix"
    /\ UNCHANGED <<clientVars, bulkVars, loaderVars, runVars, genreVars, ratingVars, i_in, i_ret>>

\* return f'tt{imdb_str}'
ImdbReturn ==
    /\ f_pc = "prefix"
    /\ i_ret' = SomeId(<<"t", "t">> \o i_str)
    /\ f_pc' = "formatted"
    /\ UNCHANGED <<clientVars, bulkVars, loaderVars, runVars, genreVars, ratingVars, i_in, i_str>>

\* the ids of the model: numbers of up to eight digits, and strings of up to
\* MaxIdChars characters, digits or not
IdNumbers == {0, 7, 114709, 1234567, 12345678, 0 - 3}
IdChars == {"7", "x"}
MaxIdChars == 8

ImdbInputs ==
    {NanId} \cup {FloatId(n) : n \in IdNumbers} \cup {IntId(n) : n \in IdNumbers}
        \cup {StrId(q) : q \in SeqsUpTo(IdChars, MaxIdChars)}

\* any value of the imdbId column, about to be formatted
InitImdb ==
    /\ max_retries = 0
    /\ InitCommon
    /\ InitNoData
    /\ f_pc = "imdb"
    /\ NoGenres
    /\ NoRatings
    /\ i_in \in ImdbInputs
    /\ i_str = <<>>
    /\ i_ret = NoneId
    /\ NoRun

NextImdb ==
    \/ ImdbIsNa
    \/ ImdbToStr
    \/ ImdbEmpty
    \/ ImdbZfill
    \/ ImdbReturn

SpecImdb == InitImdb /\ [][NextImdb]_vars

----------------------------------------------------------------------------
(* extract_csv_data *)

\* _format_imdb_id, from its first line to its last
FormatImdbId(v) ==
    IF IsNa(v) THEN NoneId
    ELSE IF ImdbStr(v) = <<>> THEN NoneId
    ELSE SomeId(<<"t", "t">> \o Zfill(ImdbStr(v), IMDB_WIDTH))

\* the ids of the client model are short names: tt1 is tt0000001
IdNumber(id) == IF id = "tt1" THEN 1 ELSE 2

\* the id of the client model a formatted id is
IdKey(r) == CHOOSE id \in Ids : FormatImdbId(IntId(IdNumber(id))) = r

\* _read_csv: the DataFrame of a file, and pd.DataFrame() when it is missing
ReadCsv(csv, columns, rows) ==
    IF csv.exists THEN [columns |-> columns, rows |-> rows] ELSE EmptyFrame

\* the frame has these columns; selecting a column it lacks raises KeyError
HasColumns(frame, columns) == columns \subseteq frame.columns

\* a movieId is in two rows: the join is not one to one
Repeats(rows) == \E i, j \in 1..Len(rows) : i # j /\ rows[i].movieId = rows[j].movieId

\* movies.merge(links[['movieId', 'imdbId']], on='movieId', how='left'):
\* each movie with the imdbId of its link, NaN when it has none
LeftJoin(movies, links) ==
    [n \in 1..Len(movies) |->
        LET hits == {k \in 1..Len(links) : links[k].movieId = movies[n].movieId}
        IN [movieId |-> movies[n].movieId, genres |-> movies[n].genres,
            imdbId |-> IF hits = {} THEN NanId ELSE links[CHOOSE k \in hits : TRUE].imdbId]]

\* the exception extract_csv_data raises on these frames, "" when none:
\* links[['movieId', 'imdbId']] and on='movieId' need their columns, and
\* validate='one_to_one' needs unique keys on both sides
ExtractError(movies, links) ==
    IF ~ HasColumns(links, {"movieId", "imdbId"}) THEN "KeyError"
    ELSE IF ~ HasColumns(movies, {"movieId"}) THEN "KeyError"
    ELSE IF Repeats(movies.rows) \/ Repeats(links.rows) THEN "MergeError"
    ELSE ""

\* movie_link['imdbId'] = movie_link['imdbId'].apply(_format_imdb_id)
FormatColumn(rows) == [n \in 1..Len(rows) |-> [rows[n] EXCEPT !.imdbId = FormatImdbId(@)]]

MOVIE_COLUMNS == {"movieId", "title", "genres"}
LINK_COLUMNS == {"movieId", "imdbId", "tmdbId"}
RATING_COLUMNS == {"userId", "movieId", "rating", "timestamp"}

----------------------------------------------------------------------------
(* transform_data *)

\* drop_duplicates(subset='movieId'): the first row of each movie stays
FirstOfMovie(rows) ==
    LET leads(n) == \A j \in 1..(n - 1) : rows[j].movieId # rows[n].movieId
        idx == SelectSeq([n \in 1..Len(rows) |-> n], leads)
    IN [n \in 1..Len(idx) |-> rows[idx[n]]]

\* clean_movies_dataframe: the columns the loader reads
CleanMovies(rows) ==
    LET kept == FirstOfMovie(rows)
    IN [n \in 1..Len(kept) |->
            [movieId |-> kept[n].movieId, genresList |-> ParseGenres(kept[n].genres)]]

\* the values insert_ratings takes from a validated row
RatingRecords(frame) ==
    [n \in 1..Len(frame) |->
        [userId |-> frame[n].userId, movieId |-> frame[n].movieId,
         rating |-> frame[n].rating.n, timestamp |-> frame[n].timestamp.n]]

\* movie_id_lookup.get(imdb_id): the movie of an id, 0 for None; of two
\* movies with one id the dict holds the later
MovieIdLookup(movies, id) ==
    LET hits == {n \in 1..Len(movies) : ~ movies[n].imdbId.none /\ IdKey(movies[n].imdbId) = id}
    IN IF hits = {} THEN 0 ELSE movies[SetMax(hits)].movieId

\* api_data.items(): the fetched ids, in the order they were put
Items(ids, payloads) == SelectSeq(ids, LAMBDA i : i \in DOMAIN payloads)

\* a build_movie_details that makes a record of every payload
BuildMovieDetailsOfAll(movies, ids, payloads) ==
    LET kept == SelectSeq(Items(ids, payloads), LAMBDA i : MovieIdLookup(movies, i) # 0)
    IN [n \in 1..Len(kept) |-> MovieIdLookup(movies, kept[n])]

\* build_movie_details: the movie ids of the detail records; a payload of no
\* movie is skipped, and so is one with Response 'False'
BuildMovieDetails(movies, ids, payloads) ==
    LET kept == SelectSeq(Items(ids, payloads),
                    LAMBDA i : MovieIdLookup(movies, i) # 0 /\ payloads[i].Response # "False")
    IN [n \in 1..Len(kept) |-> MovieIdLookup(movies, kept[n])]

----------------------------------------------------------------------------
(* main *)

\* main has ended: it never ran, an exception ended it, or it printed the summary
RunEnded == m_pc \in {"idle", "aborted"} \/ (m_pc = "load" /\ l_pc \in {"done", "failed"})

\* main starts: a connection on the store, nothing extracted yet
RunMain ==
    /\ RunEnded
    /\ fm_pc = "idle"
    /\ m_pc' = "extract"
    /\ m_err' = ""
    /\ raw_movies' = EmptyFrame
    /\ raw_ratings' = EmptyFrame
    /\ a_ids' = <<>>
    /\ a_idx' = 0
    /\ a_payloads' = EmptyCache
    /\ a_calls' = <<>>
    /\ t_movies' = <<>>
    /\ t_ratings' = <<>>
    /\ t_details' = <<>>
    /\ db' = committed
    /\ l_pc' = "idle"
    /\ l_op' = "movies"
    /\ l_chunks' = <<>>
    /\ l_k' = 1
    /\ l_j' = 1
    /\ l_start' = committed
    /\ l_raised' = FALSE
    /\ UNCHANGED <<clientVars, bulkVars, fnVars, sourceVars, d_version, batch_size, committed, first>>

\* raw = extract_csv_data(): the three files are read, movies are joined with
\* their links and the ids are formatted; an exception goes through main
Extract ==
    /\ m_pc = "extract"
    /\ LET movies == ReadCsv(x_movies, MOVIE_COLUMNS, x_movies.rows)
           ratings == ReadCsv(x_ratings, RATING_COLUMNS, ReadRatings(x_ratings.rows))
           links == ReadCsv(x_links, LINK_COLUMNS, x_links.rows)
           err == ExtractError(movies, links)
       IN IF err # ""
          THEN /\ m_pc' = "aborted"
               /\ m_err' = err
               /\ UNCHANGED <<raw_movies, raw_ratings>>
          ELSE /\ raw_movies' = [columns |-> movies.columns \cup {"imdbId", "year"},
                                 rows |-> FormatColumn(LeftJoin(movies.rows, links.rows))]
               /\ raw_ratings' = ratings
               /\ m_pc' = "api"
               /\ UNCHANGED m_err
    /\ UNCHANGED <<clientVars, bulkVars, loaderVars, fnVars, sourceVars, a_ids, a_idx, a_payloads,
                   a_calls>>

\* movies_df['imdbId'].dropna().unique().tolist()
UniqueIds(rows) ==
    LET present == SelectSeq(rows, LAMBDA r : ~ r.imdbId.none)
        keys == [n \in 1..Len(present) |-> IdKey(present[n].imdbId)]
        leads(n) == \A j \in 1..(n - 1) : keys[j] # keys[n]
        idx == SelectSeq([n \in 1..Len(keys) |-> n], leads)
    IN [n \in 1..Len(idx) |-> keys[idx[n]]]

\* api_payloads = {}; with the API on, a client is constructed on the cache
\* file and _fetch_api_payloads is called on the ids of the movies
ApiStart ==
    /\ m_pc = "api"
    /\ a_payloads' = EmptyCache
    /\ a_calls' = <<>>
    /\ IF m_api
       THEN /\ cache' = LoadCache(file)
            /\ reloaded' = (file # Absent)
            /\ crashed' = FALSE
            /\ a_ids' = UniqueIds(raw_movies.rows)
            /\ a_idx' = 1
            /\ m_pc' = "fetch"
       ELSE /\ m_pc' = "transform"
            /\ UNCHANGED <<cache, reloaded, crashed, a_ids, a_idx>>
    /\ UNCHANGED <<max_retries, file, fm_pc, fm_id, attempt, payload, fm_ret, log, cache0, file0,
                   hist, bulkVars, loaderVars, fnVars, sourceVars, m_err, raw_movies, raw_ratings>>

\* if limit and idx >= limit: break (idx counts from 0)
PayloadCap(lim, idx) == lim.some /\ lim.n # 0 /\ idx >= lim.n

\* one pass of the for loop of _fetch_api_payloads up to the call of
\* fetch_movie: the end of the ids, the break on the cap, or the call
ApiLoop ==
    /\ m_pc = "fetch"
    /\ IF a_idx > Len(a_ids) \/ PayloadCap(a_limit, a_idx - 1)
       THEN /\ m_pc' = "transform"
            /\ UNCHANGED <<clientVars, a_calls>>
       ELSE /\ Enter(a_ids[a_idx])
            /\ a_calls' = Append(a_calls, a_ids[a_idx])
            /\ m_pc' = "call"
    /\ UNCHANGED <<bulkVars, loaderVars, fnVars, sourceVars, m_err, raw_movies, raw_ratings,
                   a_ids, a_idx, a_payloads>>

\* payload = client.fetch_movie(imdb_id) returns; if payload: payloads[imdb_id] = payload
ApiAfterCall ==
    /\ m_pc = "call"
    /\ fm_pc = "return"
    /\ Leave
    /\ a_payloads' = IF Truthy(fm_ret)
                     THEN [i \in DOMAIN a_payloads \cup {fm_id} |->
                              IF i = fm_id THEN fm_ret ELSE a_payloads[i]]
                     ELSE a_payloads
    /\ a_idx' = a_idx + 1
    /\ m_pc' = "fetch"
    /\ UNCHANGED <<bulkVars, loaderVars, fnVars, sourceVars, m_err, raw_movies, raw_ratings, a_ids,
                   a_calls>>

\* transformed = transform_data(raw['movies'], raw['ratings'], api_payloads),
\* and main goes on to insert_movies; ratings['rating'] of a frame without
\* that column raises KeyError, which goes through main
Transform ==
    /\ m_pc = "transform"
    /\ IF ~ HasColumns(raw_ratings, {"rating"})
       THEN /\ m_pc' = "aborted"
            /\ m_err' = "KeyError"
            /\ UNCHANGED <<t_movies, t_ratings, t_details, l_pc>>
       ELSE /\ t_movies' = CleanMovies(raw_movies.rows)
            /\ t_ratings' = RatingRecords(ValidateRatings(raw_ratings.rows))
            /\ t_details' = BuildMovieDetails(raw_movies.rows, a_ids, a_payloads)
            /\ m_pc' = "load"
            /\ l_pc' = "begin"
            /\ UNCHANGED m_err
    /\ UNCHANGED <<clientVars, bulkVars, fnVars, sourceVars, raw_movies, raw_ratings, a_ids, a_idx,
                   a_payloads, a_calls, d_version, batch_size, db, committed, l_op, l_chunks, l_k, l_j,
                   l_start, l_raised, first>>

\* the source files of the model: two movies and their links, a file with a
\* movieId in two rows, ratings with and without a dirty row; the caps on the
\* enrichment calls go from 0 to MaxCap
RunRetries == 1
MaxCap == 2
MovieRow(m, genres) == [movieId |-> m, genres |-> StringOf(genres)]
LinkRow(m, n) == [movieId |-> m, imdbId |-> IntId(n)]
RatingLine(score, stamp) == [userId |-> 1, movieId |-> 1, rating |-> score, timestamp |-> stamp]

RunMovieFiles ==
    {NoFile,
     File(<<MovieRow(1, <<"Comedy", Pipe, "Drama">>)>>),
     File(<<MovieRow(1, <<"Comedy", Pipe, "Drama">>), MovieRow(2, <<"Drama">>)>>),
     File(<<MovieRow(1, <<"Comedy">>), MovieRow(1, <<"Drama">>)>>)}

RunLinkFiles ==
    {NoFile,
     File(<<LinkRow(1, 1)>>),
     File(<<LinkRow(1, 1), LinkRow(2, 2)>>),
     File(<<LinkRow(1, 1), LinkRow(1, 2)>>)}

RunRatingFiles ==
    {NoFile,
     File(<<RatingLine("4.5", "100")>>),
     File(<<RatingLine("4.5", "100"), RatingLine("x", "abc")>>)}

\* before a first run: a fresh store, no cache file, the source files as they are
InitRun ==
    /\ max_retries = RunRetries
    /\ InitCommon
    /\ t_movies = <<>>
    /\ t_ratings = <<>>
    /\ t_details = <<>>
    /\ batch_size \in 1..MaxBatch
    /\ InitStore
    /\ f_pc = "idle"
    /\ NoGenres
    /\ NoRatings
    /\ NoImdb
    /\ m_pc = "idle"
    /\ m_err = ""
    /\ m_api \in BOOLEAN
    /\ x_movies \in RunMovieFiles
    /\ x_links \in RunLinkFiles
    /\ x_ratings \in RunRatingFiles
    /\ raw_movies = EmptyFrame
    /\ raw_ratings = EmptyFrame
    /\ a_ids = <<>>
    /\ a_idx = 0
    /\ a_limit \in {NoLimit} \cup {Limit(n) : n \in 0..MaxCap}
    /\ a_payloads = EmptyCache
    /\ a_calls = <<>>

\* main, run after run on the same files, cache file and store
NextRun ==
    \/ RunMain
    \/ Extract
    \/ ApiStart
    \/ ApiLoop
    \/ FetchMovie
    \/ ApiAfterCall
    \/ Transform
    \/ OpBegin
    \/ WriteRow
    \/ WriteFails
    \/ OpCommit
    \/ OpRollback
    \/ Verify

SpecRun == InitRun /\ [][NextRun]_vars

----------------------------------------------------------------------------
(* Properties of fetch_movie, under Spec *)

IsRequest(ev) == ev.e \in {"req_fail", "req_found", "req_notfound"}

\* the number of network requests of a log
NetCount(lg) == Cardinality({n \in 1..Len(lg) : IsRequest(lg[n])})

\* the number of events of one kind in a log
CountOf(lg, e) == Cardinality({n \in 1..Len(lg) : lg[n].e = e})

\* the backoff delays of a log, in order
Delays(lg) == SelectSeq(lg, LAMBDA ev : ev.e = "backoff")

\* the events of a log after position k
After(lg, k) == SubSeq(lg, k + 1, Len(lg))

IsPrefix(p, q) == Len(p) <= Len(q) /\ SubSeq(q, 1, Len(p)) = p

InCall == fm_pc \notin {"idle", "down"}

\* C1: once a fetch_movie call for an id has completed with a found payload or
\* a structured not-found, every later call for that id, by the same client or
\* by a client of a later run constructed from the cache file, issues no
\* network request.
C1_ResolvedIdNeedsNoNetwork ==
    (InCall /\ hist[fm_id] = "resolved") =>
        /\ NetCount(log) = 0
        /\ fm_pc \in {"check", "return"}

\* a client of a later run answers a call for a cached negative from the cache
C1_Witness ==
    /\ fm_pc = "return"
    /\ reloaded
    /\ hist[fm_id] = "resolved"
    /\ fm_ret.Response = "False"
    /\ log = <<>>

\* C3: a structured not-found answer ends the requests of the call: what
\* follows it is the cache entry and the write of the cache file, nothing else
\* (no retry, no backoff, no delay), and the call returns None with a negative
\* entry for the id in the cache and in the cache file.
C3_NotFoundIsCachedNotRetried ==
    \A k \in 1..Len(log) :
        log[k].e = "req_notfound" =>
            /\ IsPrefix(After(log, k), <<Ev("store", 0), Ev("persist", 0)>>)
            /\ fm_pc = "return" =>
                /\ After(log, k) = <<Ev("store", 0), Ev("persist", 0)>>
                /\ fm_ret = None
                /\ fm_id \in DOMAIN cache
                /\ cache[fm_id] = NegativeMarker(ServiceNegative(fm_id))
                /\ fm_id \in DOMAIN LoadCache(file)
                /\ LoadCache(file)[fm_id] = NegativeMarker(ServiceNegative(fm_id))

\* a call returns after a transport failure, a backoff and a not-found answer
C3_Witness ==
    /\ fm_pc = "return"
    /\ Len(log) = 5
    /\ log[1].e = "req_fail"
    /\ log[3].e = "req_notfound"

\* the call found no cache entry and each of its requests failed
AllAttemptsFailed ==
    /\ ~ (fm_id \in DOMAIN cache0)
    /\ \A n \in 1..Len(log) : log[n].e \in {"req_fail", "backoff"}

\* C4: a call for an uncached id whose attempts all fail at transport level
\* issues exactly max_retries requests, returns None and leaves the cache and
\* the cache file as they were; a later call for that id goes to the network
\* again.
C4_ExhaustedIsNotCached ==
    /\ (fm_pc = "return" /\ AllAttemptsFailed) =>
        /\ NetCount(log) = max_retries
        /\ fm_ret = None
        /\ cache = cache0
        /\ file = file0
    /\ (fm_pc = "return" /\ hist[fm_id] = "exhausted" /\ max_retries >= 1) =>
        NetCount(log) >= 1

\* a second call for an id exhausts its three attempts as the first did
C4_Witness ==
    /\ fm_pc = "return"
    /\ hist[fm_id] = "exhausted"
    /\ AllAttemptsFailed
    /\ max_retries = 3
    /\ NetCount(log) = 3

\* the call ended with a found payload from the network
FoundFromNetwork == fm_pc = "return" /\ CountOf(log, "req_found") >= 1

\* C5: a call that sees N < max_retries transport failures and then a success
\* ends with one success entry for the id, cached and persisted, after exactly
\* N backoff delays; each delay is at least double the one before it unless it
\* is the ceiling, and none exceeds the ceiling.
C5_RetryThenSuccess ==
    FoundFromNetwork =>
        LET N == CountOf(log, "req_fail")
            d == Delays(log)
        IN /\ N < max_retries
           /\ Len(d) = N
           /\ \A n \in 1..Len(d) : d[n].d <= BACKOFF_CEILING
           /\ \A n \in 2..Len(d) : d[n].d >= 2 * d[n - 1].d \/ d[n].d = BACKOFF_CEILING
           /\ CountOf(log, "req_found") = 1
           /\ CountOf(log, "store") = 1
           /\ CountOf(log, "persist") = 1
           /\ fm_id \in DOMAIN cache
           /\ cache[fm_id] = FoundPayload(fm_id)
           /\ fm_id \in DOMAIN LoadCache(file)
           /\ LoadCache(file)[fm_id] = FoundPayload(fm_id)

\* five failures, then a success: the delays are 1, 2, 4, 8 and the ceiling
C5_Witness ==
    /\ FoundFromNetwork
    /\ CountOf(log, "req_fail") = 5
    /\ Delays(log)[5].d = BACKOFF_CEILING
    /\ Delays(log)[4].d = 8

\* C7: a call that gets a found payload from the network applies the
\* rate-limit delay exactly once, as its last step before it returns, after
\* the cache entry and the write of the cache file; a call answered from the
\* cache applies no delay (and does nothing else).
C7_RateLimitDelay ==
    /\ CountOf(log, "sleep") <= 1
    /\ FoundFromNetwork =>
        /\ CountOf(log, "sleep") = 1
        /\ Len(log) >= 4
        /\ After(log, Len(log) - 4) =
              <<Ev("req_found", 0), Ev("store", 0), Ev("persist", 0), Ev("sleep", 0)>>
        /\ fm_ret = FoundPayload(fm_id)
    /\ (fm_pc = "return" /\ fm_id \in DOMAIN cache0) =>
        /\ log = <<>>
        /\ fm_ret = cache0[fm_id]

\* a found payload arrives on the second attempt
C7_Witness ==
    /\ FoundFromNetwork
    /\ CountOf(log, "req_fail") = 1
    /\ CountOf(log, "sleep") = 1

----------------------------------------------------------------------------
(* Properties of interrupted runs, under SpecCrash *)

\* C6: a client restarted after an interruption has every id in its cache
\* whose fetch_movie call had completed with a found payload or a structured
\* not-found before the interruption.
C6_RestartKeepsCompleted ==
    (crashed /\ fm_pc = "idle") =>
        \A id \in Ids : hist[id] = "resolved" => id \in DOMAIN cache

----------------------------------------------------------------------------
(* Properties of fetch_bulk, under SpecBulk *)

\* C2: the mapping fetch_bulk returns holds an id only if the id resolved to
\* found: no entry of it is a negative marker.
C2_BulkReturnsFoundOnly ==
    b_pc = "done" =>
        \A id \in DOMAIN result : result[id].Response = "True"

\* the non-empty ids of a collection, in order
NonEmptyIds(ids) == SelectSeq(ids, LAMBDA id : id # EmptyId)

\* the first n elements of a sequence, all of them when it is shorter
FirstN(q, n) == SubSeq(q, 1, IF n < Len(q) THEN n ELSE Len(q))

\* the ids a bulk call with this collection and cap has to fetch
ToFetch(ids, lim) ==
    IF lim.some THEN FirstN(NonEmptyIds(ids), lim.n) ELSE NonEmptyIds(ids)

\* C8: fetch_bulk calls fetch_movie on exactly the first L non-empty ids, in
\* order, for a cap L >= 0, and on all non-empty ids without a cap; empty ids
\* are skipped and do not count.
C8_BulkFetchesFirstNonEmpty ==
    /\ b_pc # "idle" => IsPrefix(b_calls, ToFetch(b_ids, b_limit))
    /\ b_pc = "done" => b_calls = ToFetch(b_ids, b_limit)

\* a bulk call with cap 1 over an empty id and two ids fetches the first id only
C8_Witness ==
    /\ b_pc = "done"
    /\ b_ids = <<EmptyId, "tt2", "tt1">>
    /\ b_limit = Limit(1)
    /\ b_calls = <<"tt2">>

----------------------------------------------------------------------------
(* Properties of the insert operations, under SpecLoader *)

\* an insert operation ended with a failed write in chunk l_k, at its row l_j
OpFailed == l_pc = "failed"

\* C9: when a write fails inside a batch of an insert operation, the
\* operation leaves no row of that batch behind (a row of the batch is in the
\* store afterwards only if it was there, with the same values, before the
\* operation), neither committed nor pending on the connection, and the
\* failure leaves the operation as an exception.
C9_FailedBatchDoesNotLand ==
    /\ OpFailed =>
        /\ l_raised
        /\ \A n \in 1..Len(l_chunks[l_k]) :
            LET row == l_chunks[l_k][n]
            IN /\ Present(l_op, committed, row) => Present(l_op, l_start, row)
               /\ Present(l_op, db, row) => Present(l_op, l_start, row)
    /\ l_raised => OpFailed

\* the second write of a batch of two failed after the first had written a
\* new rating
C9_Witness ==
    /\ OpFailed
    /\ l_op = "ratings"
    /\ batch_size = 2
    /\ l_j = 2
    /\ ~ Present(l_op, l_start, l_chunks[l_k][1])

\* C10: when batch k of an insert operation fails, the rows of its batches
\* 1..k-1, which had been written, are committed in the store.
C10_EarlierBatchesStayCommitted ==
    OpFailed =>
        \A k \in 1..(l_k - 1) : \A n \in 1..Len(l_chunks[k]) :
            Present(l_op, committed, l_chunks[k][n])

\* C11: a load of the record sets that completes on a store on which an
\* earlier load of them had completed leaves the movies, genres, movie_genres
\* and ratings tables with the rows the first completed load left, and
\* movie_details with exactly one row per movie id of the detail records, the
\* row of the latest load; this for every batch size.
C11_ReloadIsIdempotent ==
    (l_pc = "done" /\ first.set) =>
        /\ committed.movies = first.store.movies
        /\ committed.genres = first.store.genres
        /\ committed.movie_genres = first.store.movie_genres
        /\ committed.ratings = first.store.ratings
        /\ Cardinality(committed.movie_details) = Cardinality(Range(t_details))
        /\ \A m \in Range(t_details) :
            [movieId |-> m, data |-> d_version] \in committed.movie_details

\* a later load, in batches of one, of two movies with genres, ratings and
\* details has completed and has replaced the details of the first load
C11_Witness ==
    /\ l_pc = "done"
    /\ first.set
    /\ batch_size = 1
    /\ Len(t_movies) = 2
    /\ Len(t_ratings) = 2
    /\ Len(t_details) = 2
    /\ committed.movie_genres # {}
    /\ \E r \in first.store.movie_details : r.data # d_version

\* every referencing row of the tables has its movie, and its genre
References(st) ==
    /\ \A r \in st.movie_genres : r.movieId \in st.movies /\ r.genreId \in GenreIds(st)
    /\ \A r \in st.ratings : r.movieId \in st.movies
    /\ \A r \in st.movie_details : r.movieId \in st.movies

\* C12: in every state of the store, during and after the load operations of
\* any number of runs, failed ones included, every MovieGenre, Rating and
\* MovieDetail row references an existing Movie id and every MovieGenre row
\* an existing Genre id; this for the committed tables and for the tables as
\* the connection sees them.
C12_ReferencesExist == References(committed) /\ References(db)

\* a run failed on the rating of a movie the store does not have, on a store
\* that holds MovieGenre rows
C12_Witness ==
    /\ OpFailed
    /\ l_op = "ratings"
    /\ l_chunks[l_k][l_j].movieId \notin committed.movies
    /\ committed.movie_genres # {}

\* the tags of the movies of the run
TagsOf(movies) == UNION {Range(movies[n].genresList) : n \in 1..Len(movies)}

\* C20: when insert_movie_genres starts, the genres table has every tag of
\* every movie of the run (the genres are inserted first and the vocabulary
\* covers the tags), and when the load steps of a run have all succeeded,
\* every (movie, genre) pair of the transformer is a MovieGenre row, under
\* the id of its genre: no pair is dropped.
C20_NoPairDropped ==
    /\ (l_op = "movie_genres" /\ l_pc \in {"begin", "exec"}) =>
            TagsOf(t_movies) \subseteq DOMAIN db.genres
    /\ l_pc = "done" =>
            LET pairs == MapMovieGenres(t_movies)
            IN \A n \in 1..Len(pairs) :
                /\ pairs[n].genreName \in DOMAIN committed.genres
                /\ [movieId |-> pairs[n].movieId,
                    genreId |-> committed.genres[pairs[n].genreName]] \in committed.movie_genres

\* a run over two movies of two tags each has completed, in batches of two
C20_Witness ==
    /\ l_pc = "done"
    /\ batch_size = 2
    /\ Len(MapMovieGenres(t_movies)) = 4
    /\ Cardinality(committed.movie_genres) = 4

----------------------------------------------------------------------------
(* The backoff delays of a call, under Spec *)

\* C19: when a fetch_movie call ends, the number of its backoff delays is the
\* number of its requests after the first: a delay occurs only before a
\* retry, so a call that used up its max_retries attempts has made
\* max_retries - 1 delays, and none after its last failed attempt.
C19_BackoffOnlyBeforeRetry ==
    fm_pc = "return" =>
        CountOf(log, "backoff") = IF NetCount(log) = 0 THEN 0 ELSE NetCount(log) - 1

----------------------------------------------------------------------------
(* Properties of the transformer functions *)

\* C16: for every genres string, parsing the '|'-join of the list
\* _parse_genres returned yields the same genre set as that list, also when
\* the sentinel is one tag among empty or other tags.
C16_ParseGenresIdempotent ==
    f_pc = "reparsed" => Range(g_again) = Range(g_out)

\* the key of a validated rating
OutputKey(r) == <<r.userId, r.movieId, r.timestamp>>

\* C15: for every ratings file, rows whose score or timestamp fields differ
\* in representation but are the same number included, the output of
\* _validate_ratings_dataframe has no row with a score outside 0.5..5.0 and
\* no two rows with the same (userId, movieId, timestamp).
C15_ValidRatingsUniqueInRange ==
    f_pc = "valid" =>
        /\ \A n \in 1..Len(r_frame) : ScoreInRange(r_frame[n].rating)
        /\ \A i, j \in 1..Len(r_frame) :
            OutputKey(r_frame[i]) = OutputKey(r_frame[j]) => i = j

\* tt and exactly seven digits
WellFormedId(q) ==
    /\ Len(q) = 2 + IMDB_WIDTH
    /\ q[1] = "t"
    /\ q[2] = "t"
    /\ \A n \in 3..Len(q) : q[n] \in Range(DigitChars)

\* the digits of a source id, or its characters
SourceChars(v) == IF v.k = "str" THEN v.s ELSE IntToStr(v.n)

\* a source id that is missing, not a number, or longer than seven digits
Malformed(v) ==
    \/ IsNa(v)
    \/ SourceChars(v) = <<>>
    \/ \E n \in 1..Len(SourceChars(v)) : SourceChars(v)[n] \notin Range(DigitChars)
    \/ Len(SourceChars(v)) > IMDB_WIDTH

\* C17: for every value of the source id column, _format_imdb_id returns
\* None or tt followed by exactly seven digits, and it returns None for an
\* id that is missing, not a number, or over-long.
C17_ImdbIdAbsentOrWellFormed ==
    f_pc = "formatted" =>
        /\ i_ret.none \/ WellFormedId(i_ret.s)
        /\ Malformed(i_in) => i_ret.none

----------------------------------------------------------------------------
(* Properties of a run of main, under SpecRun *)

\* one of the three source files does not exist
AnyMissing == ~ x_movies.exists \/ ~ x_links.exists \/ ~ x_ratings.exists

\* extract_csv_data has returned
Extracted == m_pc \in {"api", "fetch", "call", "transform", "load"}

\* C14: when one of the three source files is missing, no exception ends the
\* run in the extract or the transform stage, and extraction returns an
\* empty table for the missing file.
C14_MissingFileDoesNotAbort ==
    AnyMissing =>
        /\ m_pc # "aborted"
        /\ (Extracted /\ ~ x_ratings.exists) => raw_ratings.rows = <<>>
        /\ (Extracted /\ ~ x_movies.exists) => raw_movies.rows = <<>>

\* the run has printed the summary
SummaryPrinted == m_pc = "load" /\ l_pc = "done"

\* a fatal error has occurred: a load batch failed, or the join of movies
\* and links was not one to one
FatalError ==
    \/ m_pc = "load" /\ l_pc = "failed"
    \/ m_pc = "aborted" /\ m_err = "MergeError"

\* C13: a run that has ended has printed the summary if and only if no fatal
\* error (a failed load batch, a join that is not one to one) occurred, and
\* a run in which one occurred never prints it.
C13_SummaryIffNoFatalError ==
    /\ (RunEnded /\ m_pc # "idle") => (SummaryPrinted <=> ~ FatalError)
    /\ FatalError => ~ SummaryPrinted

\* the movies the links file gives an id
MoviesOf(id) ==
    {x_links.rows[k].movieId : k \in {j \in 1..Len(x_links.rows) :
                                        x_links.rows[j].imdbId = IntId(IdNumber(id))}}

\* the enrichment outcome of an id is NotFound: fetch_movie has cached the
\* marker, which every later call and every later run replays
NotFoundId(id) == id \in DOMAIN cache /\ cache[id].Response = "False"

\* C18: for an id whose enrichment outcome is NotFound, fresh from the
\* network or replayed from the cache of an earlier run, the transformer
\* makes no MovieDetail record of its movie and the store holds no
\* MovieDetail row of it, pending or committed.
C18_NotFoundHasNoDetail ==
    \A id \in Ids : NotFoundId(id) =>
        \A m \in MoviesOf(id) :
            /\ m \notin Range(t_details)
            /\ \A r \in db.movie_details \cup committed.movie_details : r.movieId # m

\* a run on the cache file of an earlier run has printed the summary: the
\* marker of tt1 was replayed and handed to the transformer, and the store
\* holds the detail of the other movie only
C18_Witness ==
    /\ SummaryPrinted
    /\ reloaded
    /\ "tt1" \in DOMAIN a_payloads
    /\ a_payloads["tt1"].Response = "False"
    /\ {r.movieId : r \in committed.movie_details} = {2}

\* the for loop of _fetch_api_payloads has ended in this run
FetchedAll == m_pc \in {"transform", "load"} /\ m_api

\* C21: with a cap L >= 0, L = 0 included, _fetch_api_payloads makes at most
\* L calls of fetch_movie; without a cap it calls fetch_movie on every id.
C21_CallsWithinCap ==
    /\ a_limit.some => Len(a_calls) <= a_limit.n
    /\ (~ a_limit.some /\ FetchedAll) => a_calls = a_ids

\* a row of the ratings file with a score that is a number in 0.5..5.0 and a
\* timestamp that is a number
ValidLine(line) ==
    /\ ScoreInRange(ParseNumber(line.rating))
    /\ ToDatetime(ParseNumber(line.timestamp)) # NaT

\* the (userId, movieId, timestamp) key of a row of the ratings file
LineKey(line) ==
    <<line.userId, line.movieId, ToDatetime(ParseNumber(line.timestamp))>>

\* C22: for every (userId, movieId, timestamp) key of which the ratings file
\* has at least one row with a coercible score in 0.5..5.0 and a convertible
\* timestamp, the output of _validate_ratings_dataframe has exactly one row
\* with that key, whatever the order of the rows of the file.
C22_NoValidRatingLost ==
    f_pc = "valid" =>
        \A n \in 1..Len(r_csv) :
            ValidLine(r_csv[n]) =>
                Cardinality({k \in 1..Len(r_frame) :
                    OutputKey(r_frame[k]) = LineKey(r_csv[n])}) = 1

====
